---- MODULE Spec2Model ----
(***************************************************************************)
(* A model of chtools/lib/perspective.py: the Perspective object (its      *)
(* schema, its ref_id counter, its id), the spec <-> schema translation,   *)
(* and PerspectiveClient.get / PerspectiveClient.update against the remote *)
(* perspective store.                                                      *)
(*                                                                         *)
(* Python values are modelled by what the code does with them:             *)
(*   - a dict is a record; a key the dict does not carry has the value     *)
(*     Absent, the Python value None is None;                              *)
(*   - a value of the keys 'field' / 'tag_field' is tagged "str" (a bare   *)
(*     string) or "list" (a list of strings), because the code branches on *)
(*     type(value) is str / type(value) is list;                           *)
(*   - a raised exception is the name of the error in `call.err`.          *)
(***************************************************************************)
EXTENDS Integers, Sequences, FiniteSets, TLC

VARIABLES
    _schema,        \* Perspective._schema: the in-memory schema
    _new_ref_id,    \* Perspective._new_ref_id: the ref_id candidate counter
    _id,            \* Perspective._id: None while the instance is unbound
    remote,         \* the schema the store holds for the perspective PerspectiveId
    spec,           \* the spec object the last operation was passed, as the
                    \* operation left it (NoSpec if it was passed none)
    given,          \* the value of that spec object when it was passed in
    derived,        \* the spec the last operation returned (NoSpec if none)
    issued,         \* the ref_ids _get_new_ref_id has returned to this instance
    sent,           \* the write requests the last operation sent to the store
    call,           \* the last operation: its name, arguments, result and error
    clients         \* two callers at work on the same perspective, each with
                    \* an instance of its own: where each is in its fetch,
                    \* change and update_cloudhealth, and what it holds

vars == <<_schema, _new_ref_id, _id, remote, spec, given, derived, issued, sent, call,
          clients>>

-----------------------------------------------------------------------------
(* Bounds of the model *)

\* the ref_id counter is followed at most this far above its start
MaxCandidates == 4

-----------------------------------------------------------------------------
(* Python values *)

Absent == "<absent>"
None == "<None>"

\* Python truthiness of a string-or-None value read with dict.get
Truthy(v) == v \notin {Absent, None, "", "False"}

\* str.lower() on the rule types the model draws
Lower(t) ==
    CASE t = "Search" -> "search"
      [] OTHER -> t

Digit(d) ==
    CASE d = 0 -> "0" [] d = 1 -> "1" [] d = 2 -> "2" [] d = 3 -> "3"
      [] d = 4 -> "4" [] d = 5 -> "5" [] d = 6 -> "6" [] d = 7 -> "7"
      [] d = 8 -> "8" [] OTHER -> "9"

\* str(n) for a natural number
RECURSIVE Str(_)
Str(n) == IF n < 10 THEN Digit(n) ELSE Str(n \div 10) \o Digit(n % 10)

Min(S) == CHOOSE x \in S : \A y \in S : x <= y

\* values of the keys 'field' and 'tag_field'
NoKey == [k |-> "absent", v |-> <<>>]
Scalar(s) == [k |-> "str", v |-> <<s>>]
List(q) == [k |-> "list", v |-> q]

Clause(f, tf) == [field |-> f, tag_field |-> tf]
NoCondition == [present |-> FALSE, clauses |-> <<>>]
Condition(cs) == [present |-> TRUE, clauses |-> cs]

Rule(type, to, ref_id, field, tag_field, condition) ==
    [type |-> type, to |-> to, ref_id |-> ref_id,
     field |-> field, tag_field |-> tag_field, condition |-> condition]

Item(ref_id, name) == [ref_id |-> ref_id, name |-> name, is_other |-> FALSE]
OtherItem == [ref_id |-> "1234567890", name |-> "Other", is_other |-> TRUE]
Group(type, list) == [type |-> type, list |-> list]

Schema(name, flag, merges, constants, rules) ==
    [name |-> name, include_in_reports |-> flag, merges |-> merges,
     constants |-> constants, rules |-> rules]

MkSpec(name, flag, rules) ==
    [name |-> name, include_in_reports |-> flag, rules |-> rules]

\* no spec: nothing loaded by the caller, nothing returned by the getter
NoSpec == MkSpec(None, Absent, <<>>)

-----------------------------------------------------------------------------
(* Program constants *)

StartRefId == 100

\* the 'empty schema' of an unbound Perspective
DefaultSchema ==
    Schema("EMPTY", "'true'", <<>>,
           <<Group("Static Group", <<OtherItem>>)>>, <<>>)

\* self._schema = None, as delete leaves it
ClearedSchema == Schema(None, None, <<>>, <<>>, <<>>)

single_item_list_keys == {"field", "tag_field"}

\* the constant types whose ref_ids the lookups and the allocator look at
constant_types == {"Static Group", "Dynamic Group Block"}

-----------------------------------------------------------------------------
(* Lookups in the constants of a schema *)

RECURSIVE Flatten(_)
Flatten(lists) ==
    IF lists = <<>> THEN <<>> ELSE Head(lists) \o Flatten(Tail(lists))

\* the items of the 'Static Group' and 'Dynamic Group Block' constants, in the
\* order the nested loops of the lookups visit them
RefItems(s) ==
    Flatten([i \in 1..Len(s.constants) |->
                IF s.constants[i].type \in constant_types
                THEN s.constants[i].list ELSE <<>>])

RefIdsOf(items) == {items[i].ref_id : i \in 1..Len(items)}

ExistingRefIds(s) == RefIdsOf(RefItems(s))

\* the first item that is not the "Other" item and has the name: its ref_id
FirstRefIdByName(items, constant_name) ==
    IF \E i \in 1..Len(items) :
            items[i].name = constant_name /\ ~items[i].is_other
    THEN items[Min({i \in 1..Len(items) :
                    items[i].name = constant_name /\ ~items[i].is_other})].ref_id
    ELSE None

\* the first item that is not the "Other" item and has the ref_id: its name
FirstNameByRefId(items, ref_id) ==
    IF \E i \in 1..Len(items) :
            items[i].ref_id = ref_id /\ ~items[i].is_other
    THEN items[Min({i \in 1..Len(items) :
                    items[i].ref_id = ref_id /\ ~items[i].is_other})].name
    ELSE None

\* a variant that looks in the first constant only
_get_ref_id_by_name_first(s, constant_name) ==
    FirstRefIdByName(IF s.constants = <<>> THEN <<>> ELSE s.constants[1].list,
                     constant_name)

_get_ref_id_by_name(s, constant_name) ==
    FirstRefIdByName(RefItems(s), constant_name)

_get_name_by_ref_id(s, ref_id) ==
    FirstNameByRefId(RefItems(s), ref_id)

-----------------------------------------------------------------------------
(* The ref_id allocator *)

\* a variant that does not look at the schema
CandidateFreeUnchecked(s, n) == TRUE

\* whether the loop of _get_new_ref_id stops at candidate n
CandidateFree(s, n) == Str(n) \notin ExistingRefIds(s)

\* the value of _new_ref_id when the loop of _get_new_ref_id breaks; the
\* property returns str() of it
RECURSIVE _get_new_ref_id(_, _)
_get_new_ref_id(s, ctr) ==
    IF CandidateFree(s, ctr + 1) THEN ctr + 1 ELSE _get_new_ref_id(s, ctr + 1)

\* the counter is followed up to this value
MaxRefId == StartRefId + MaxCandidates

-----------------------------------------------------------------------------
(* _add_constant: [schema, ctr, ret, new] -- the schema and the counter after
   the call, the ref_id it returns, and whether it created the group item *)

HasGroupOfType(s, constant_type) ==
    \E i \in 1..Len(s.constants) : s.constants[i].type = constant_type

FirstGroupOfType(s, constant_type) ==
    Min({i \in 1..Len(s.constants) : s.constants[i].type = constant_type})

\* the for ... else of _add_constant: a constant of the type is appended when
\* the schema has none
WithGroupOfType(s, constant_type) ==
    IF HasGroupOfType(s, constant_type) THEN s
    ELSE [s EXCEPT !.constants = Append(@, Group(constant_type, <<>>))]

\* a variant that puts the new group at the head of the list
AppendNewGroupFirst(s, g, n, constant_name) ==
    [schema |-> [s EXCEPT !.constants[g].list =
                              <<Item(Str(n), constant_name)>> \o @],
     ctr |-> n, ret |-> Str(n), new |-> TRUE]

\* constant['list'].append(new_group), for the new ref_id str(n)
AppendNewGroup(s, g, n, constant_name) ==
    [schema |-> [s EXCEPT !.constants[g].list =
                              Append(@, Item(Str(n), constant_name))],
     ctr |-> n, ret |-> Str(n), new |-> TRUE]

\* the else branch of _add_constant, on the schema that has a constant of the
\* type
CreateConstant(s, ctr, constant_name, constant_type) ==
    AppendNewGroup(s, FirstGroupOfType(s, constant_type),
                   _get_new_ref_id(s, ctr), constant_name)

\* the two branches of _add_constant, for the ref_id the lookup returned
AddConstantFor(ref_id, s, ctr, constant_name, constant_type) ==
    IF Truthy(ref_id)
    THEN [schema |-> s, ctr |-> ctr, ret |-> ref_id, new |-> FALSE]
    ELSE CreateConstant(WithGroupOfType(s, constant_type), ctr,
                        constant_name, constant_type)

_add_constant(s, ctr, constant_name, constant_type) ==
    AddConstantFor(_get_ref_id_by_name(s, constant_name), s, ctr,
                   constant_name, constant_type)

_add_rule(s, rule_definition) ==
    [s EXCEPT !.rules = Append(@, rule_definition)]

-----------------------------------------------------------------------------
(* The single-item-list conversions *)

\* a variant that leaves the string as it is
ToSchemaFormKept(value) == value

\* spec -> schema: a bare string becomes a one-element list
ToSchemaForm(value) ==
    IF value.k = "str" THEN List(value.v) ELSE value

\* a variant that raises on the empty list only
NotSingleItemEmpty(value) == value.k = "list" /\ Len(value.v) = 0

\* schema -> spec: the length test that raises
NotSingleItem(value) == value.k = "list" /\ Len(value.v) # 1

\* schema -> spec: a list becomes its first element
ToSpecForm(value) ==
    IF value.k = "list" THEN Scalar(value.v[1]) ELSE value

ClausesToSchema(condition) ==
    IF condition.present
    THEN [condition EXCEPT !.clauses =
            [i \in 1..Len(@) |->
                Clause(ToSchemaForm(@[i].field), ToSchemaForm(@[i].tag_field))]]
    ELSE condition

ClausesToSpec(condition) ==
    IF condition.present
    THEN [condition EXCEPT !.clauses =
            [i \in 1..Len(@) |->
                Clause(ToSpecForm(@[i].field), ToSpecForm(@[i].tag_field))]]
    ELSE condition

-----------------------------------------------------------------------------
(* _spec_rule_to_schema: [err, schema, ctr, rule, new] -- rule is the caller's
   rule dict after the call: the code rewrites it in place and appends that
   same dict to schema['rules'] *)

\* rule['to'] if rule['to'] else rule['ref_id']
ConstantName(rule) == IF Truthy(rule.to) THEN rule.to ELSE rule.ref_id

\* the line above raises KeyError
ConstantNameKeyError(rule) ==
    \/ rule.to = Absent
    \/ ~Truthy(rule.to) /\ rule.ref_id = Absent

\* a variant that files every group under 'Static Group'
ConstantTypeStatic(rule_type) == "Static Group"

ConstantType(rule_type) ==
    IF rule_type \in {"filter", "search"}
    THEN "Static Group" ELSE "Dynamic Group Block"

\* rule['type'] = 'filter' in the filter / search branch
WithType(rule, rule_type) ==
    IF rule_type \in {"filter", "search"}
    THEN [rule EXCEPT !.type = "filter"] ELSE rule

\* rule['to'] = ref_id; a categorize rule: rule['ref_id'] = rule['to'];
\* del rule['to']
WithRefId(rule, rule_type, ref_id) ==
    IF rule_type = "categorize"
    THEN [rule EXCEPT !.ref_id = ref_id, !.to = Absent]
    ELSE [rule EXCEPT !.to = ref_id]

\* the two loops that turn strings into single item lists
WithLists(rule) ==
    [rule EXCEPT !.field = ToSchemaForm(@),
                 !.tag_field = ToSchemaForm(@),
                 !.condition = ClausesToSchema(@)]

\* self._add_rule(rule), for the rule as rewritten
RuleAdded(ac, rule) ==
    [err |-> "none", schema |-> _add_rule(ac.schema, rule), ctr |-> ac.ctr,
     rule |-> rule, new |-> ac.new]

\* the part of _spec_rule_to_schema after _add_constant returned ac
RuleRewritten(ac, rule, rule_type) ==
    RuleAdded(ac, WithLists(WithRefId(WithType(rule, rule_type), rule_type,
                                      ac.ret)))

RuleFailed(e, s, ctr, rule) ==
    [err |-> e, schema |-> s, ctr |-> ctr, rule |-> rule, new |-> FALSE]

SpecRuleOfType(s, ctr, rule, rule_type) ==
    IF rule_type \notin {"filter", "search", "categorize"}
    THEN RuleFailed("UnknownRuleType", s, ctr, rule)
    ELSE RuleRewritten(_add_constant(s, ctr, ConstantName(rule),
                                     ConstantType(rule_type)),
                       rule, rule_type)

_spec_rule_to_schema(s, ctr, rule) ==
    IF ConstantNameKeyError(rule) THEN RuleFailed("KeyError", s, ctr, rule)
    ELSE SpecRuleOfType(s, ctr, rule, Lower(rule.type))

-----------------------------------------------------------------------------
(* The loop `for rule in spec['rules']: self._spec_rule_to_schema(rule)`, from
   rule i on. acc is [err, schema, ctr, rules, at, ids]: rules are the caller's
   rule dicts as the loop leaves them, at is the index of the rule that raised
   (0 if none), ids the ref_ids the allocator returned on the way. *)

\* acc after rule i, for the result r of _spec_rule_to_schema on it
AfterRule(acc, i, r) ==
    IF r.err # "none" THEN [acc EXCEPT !.err = r.err, !.at = i]
    ELSE [acc EXCEPT !.schema = r.schema, !.ctr = r.ctr, !.rules[i] = r.rule,
                     !.ids = IF r.new THEN @ \cup {Str(r.ctr)} ELSE @]

RECURSIVE SpecRulesLoop(_, _)
SpecRulesLoop(acc, i) ==
    IF i > Len(acc.rules) \/ acc.err # "none" THEN acc
    ELSE SpecRulesLoop(
            AfterRule(acc, i,
                      _spec_rule_to_schema(acc.schema, acc.ctr, acc.rules[i])),
            i + 1)

\* a variant that leaves the rules in place
SpecHeaderRulesKept(s, sp) ==
    [s EXCEPT !.name = sp.name,
              !.include_in_reports =
                    IF Truthy(sp.include_in_reports)
                    THEN sp.include_in_reports ELSE @]

\* self.name = spec['name']; the include_in_reports test; the rules emptied
SpecHeader(s, sp) ==
    [s EXCEPT !.name = sp.name,
              !.include_in_reports =
                    IF Truthy(sp.include_in_reports)
                    THEN sp.include_in_reports ELSE @,
              !.rules = <<>>]

\* self._schema['name'] = new_name on a schema that is None raises TypeError
NoSchemaToSet(s, ctr, sp) ==
    [err |-> "TypeError", schema |-> s, ctr |-> ctr, rules |-> sp.rules,
     at |-> 0, ids |-> {}]

\* Perspective._schema_from_spec
_schema_from_spec(s, ctr, sp) ==
    IF s = ClearedSchema THEN NoSchemaToSet(s, ctr, sp)
    ELSE SpecRulesLoop([err |-> "none", schema |-> SpecHeader(s, sp),
                        ctr |-> ctr, rules |-> sp.rules, at |-> 0,
                        ids |-> {}], 1)

\* the setter of Perspective.spec: the same statements
spec_setter(s, ctr, spec_input) ==
    IF s = ClearedSchema THEN NoSchemaToSet(s, ctr, spec_input)
    ELSE SpecRulesLoop([err |-> "none", schema |-> SpecHeader(s, spec_input),
                        ctr |-> ctr, rules |-> spec_input.rules, at |-> 0,
                        ids |-> {}], 1)

-----------------------------------------------------------------------------
(* _spec_from_schema *)

ClauseNotSingleItem(clause) ==
    NotSingleItem(clause.field) \/ NotSingleItem(clause.tag_field)

\* 'ref_id' becomes 'to' when the rule carries a ref_id
RefIdAsTo(rule) ==
    IF Truthy(rule.ref_id)
    THEN [rule EXCEPT !.to = rule.ref_id, !.ref_id = Absent]
    ELSE rule

\* a list of the rule or of one of its clauses raises
RuleNotSingleItem(rule) ==
    \/ NotSingleItem(rule.field)
    \/ NotSingleItem(rule.tag_field)
    \/ /\ rule.condition.present
       /\ \E i \in 1..Len(rule.condition.clauses) :
                ClauseNotSingleItem(rule.condition.clauses[i])

\* one pass of the loop over spec_dict['rules'], on the rule r whose 'ref_id'
\* is already renamed: [err, rule]
SpecRuleFor(s, r) ==
    IF r.to = Absent THEN [err |-> "KeyError", rule |-> r]
    ELSE IF RuleNotSingleItem(r)
    THEN [err |-> "MalformedRuleField", rule |-> r]
    ELSE [err |-> "none",
          rule |-> [r EXCEPT !.to = _get_name_by_ref_id(s, @),
                             !.field = ToSpecForm(@),
                             !.tag_field = ToSpecForm(@),
                             !.condition = ClausesToSpec(@)]]

SpecRuleFromSchema(s, rule) == SpecRuleFor(s, RefIdAsTo(rule))

\* a variant in which spec_dict is the live schema itself, so that the
\* rewrites of the loop land in its rules
LiveSchemaAliased(s, each) ==
    [s EXCEPT !.rules = [i \in 1..Len(each) |-> each[i].rule]]

\* spec_dict = copy.deepcopy(self._schema): the loop rewrites the rules of
\* the copy, and self._schema is after the call what it was
LiveSchema(s, each) == s

\* the spec dict, for the results of the passes over the rules
SpecFor(s, each) ==
    IF \E i \in 1..Len(each) : each[i].err # "none"
    THEN [err |-> each[Min({i \in 1..Len(each) : each[i].err # "none"})].err,
          spec |-> NoSpec, live |-> LiveSchema(s, each)]
    ELSE [err |-> "none",
          spec |-> MkSpec(s.name, s.include_in_reports,
                          [i \in 1..Len(each) |-> each[i].rule]),
          live |-> LiveSchema(s, each)]

\* [err, spec, live]: the spec dict returned, NoSpec when the call raised
\* (copy.deepcopy(None)['rules'] raises TypeError), and self._schema after
\* the call
_spec_from_schema(s) ==
    IF s = ClearedSchema
    THEN [err |-> "TypeError", spec |-> NoSpec, live |-> s]
    ELSE SpecFor(s, [i \in 1..Len(s.rules) |->
                        SpecRuleFromSchema(s, s.rules[i])])

-----------------------------------------------------------------------------
(* The perspective store (the http client's GET and PUT on
   v1/perspective_schemas/<id>) *)

PerspectiveId == "7"

\* the id the store gives to the perspective a POST creates
CreatedId == "8"

StoreIds == {PerspectiveId, CreatedId}

\* what the store answers for an id it does not know: "a perspective named
\* 'Empty' that is empty"
EmptyRemote == Schema("Empty", "True", <<>>, <<>>, <<>>)

\* a store that holds one perspective, with schema s
StoreOf(s) ==
    [id \in StoreIds |-> IF id = PerspectiveId THEN s ELSE EmptyRemote]

Exists(store, perspective_id) ==
    perspective_id \in StoreIds /\ store[perspective_id] # EmptyRemote

\* GET v1/perspective_schemas/<id>
Fetch(store, perspective_id) ==
    IF Exists(store, perspective_id) THEN store[perspective_id]
    ELSE EmptyRemote

\* PUT v1/perspective_schemas/<id>: the store holds the submitted schema
Replace(store, perspective_id, payload) ==
    IF Exists(store, perspective_id)
    THEN [store EXCEPT ![perspective_id] = payload] ELSE store

\* POST v1/perspective_schemas: the store holds the schema under a new id
Post(store, payload) == [store EXCEPT ![CreatedId] = payload]

\* the message of the answer to a POST, as split(" ") cuts it
PostMessage(perspective_id) == <<"Perspective", perspective_id, "created">>

\* DELETE v1/perspective_schemas/<id>
Remove(store, perspective_id) ==
    IF Exists(store, perspective_id)
    THEN [store EXCEPT ![perspective_id] = EmptyRemote] ELSE store

Request(verb, schema) == [verb |-> verb, schema |-> schema]

-----------------------------------------------------------------------------
(* update_cloudhealth: [err, payload, sent] for a schema argument (NoSchemaArg
   for None or an empty dict) *)

NoSchemaArg == Schema(None, None, <<>>, <<>>, <<>>)

\* a variant that submits the constants as they are
StripNothing(constants) == constants

StripDynamicGroups(constants) ==
    SelectSeq(constants, LAMBDA constant : constant.type # "Dynamic Group")

\* a variant without the test of the id
update_cloudhealth_any(s, id, schema) ==
    [err |-> "none",
     payload |-> [(IF schema # NoSchemaArg THEN schema ELSE s) EXCEPT
                     !.constants = StripDynamicGroups(@)]]

update_cloudhealth(s, id, schema) ==
    LET perspective_schema == IF schema # NoSchemaArg THEN schema ELSE s IN
    IF Truthy(id)
    THEN [err |-> "none",
          payload |-> [perspective_schema EXCEPT
                          !.constants = StripDynamicGroups(@)]]
    ELSE [err |-> "NoId", payload |-> NoSchemaArg]

-----------------------------------------------------------------------------
(* PerspectiveClient *)

\* int(perspective_input) succeeds
IsInt(perspective_input) == perspective_input \in StoreIds

\* the id the client works with: the input itself if it is a number, else the
\* id of the perspective of that name in the index, else None -- which the
\* callers pass through str()
_get_perspective_id(store, perspective_input) ==
    IF IsInt(perspective_input) THEN perspective_input
    ELSE IF Fetch(store, PerspectiveId).name = perspective_input
    THEN PerspectiveId
    ELSE IF Fetch(store, CreatedId).name = perspective_input
    THEN CreatedId
    ELSE None

\* PerspectiveClient.get: [err, id, schema]
client_get(store, perspective_input) ==
    LET perspective_id == _get_perspective_id(store, perspective_input)
        fetched == Fetch(store, perspective_id)
    IN [err |-> IF fetched.name = "Empty" THEN "NotFound" ELSE "none",
        id |-> perspective_id, schema |-> fetched]

\* PerspectiveClient.update, the part between get and update_cloudhealth:
\* the error it raises, "none" if it reaches update_cloudhealth.
\* schema_arg is "None", "{}" or "dict"; spec_arg is "None" or "dict"
client_update_check(perspective_name, schema_arg, schema, spec_arg, sp) ==
    IF schema_arg = "dict" \/ spec_arg = "dict"
    THEN IF schema_arg = "None" THEN "AttributeError"
         ELSE IF schema_arg = "dict" /\ Truthy(schema.name)
              THEN IF perspective_name # schema.name
                   THEN "NameMismatch" ELSE "none"
         ELSE IF spec_arg = "None" THEN "TypeError"
         ELSE IF perspective_name # sp.name THEN "NameMismatch" ELSE "none"
    ELSE "none"

-----------------------------------------------------------------------------
(* The Perspective operations that talk to the store. Each is a record
   [err, schema, store, sent, fetched, request]: the error raised ("none" if
   the call returned), the instance's schema and the store after the call, the
   writes sent in their order, whether a GET was sent, and the request the
   transport failed on ("" if none). ack says whether the transport carries
   a write out or raises. *)

\* str(datetime.datetime.now())
Timestamp == "2019-01-01 00:00:00.000000"

\* the schema property: a schema that is None is fetched again
schema_getter(s, id, store) ==
    IF s = ClearedSchema THEN Fetch(store, id) ELSE s

Outcome(err, s, store, requests, fetched, request) ==
    [err |-> err, schema |-> s, store |-> store, sent |-> requests,
     fetched |-> fetched, request |-> request]

\* a variant in which the store keeps the rules it holds ahead of those of
\* the payload
PutMerged(up, own, id, store, fetched, ack) ==
    IF up.err # "none"
    THEN Outcome(up.err, own, store, <<>>, fetched, "")
    ELSE IF ~ack
    THEN Outcome("HttpError", own, store, <<Request("PUT", up.payload)>>,
                 fetched, "PUT")
    ELSE Outcome("none",
                 [up.payload EXCEPT !.rules = Fetch(store, id).rules \o @],
                 Replace(store, id,
                         [up.payload EXCEPT
                            !.rules = Fetch(store, id).rules \o @]),
                 <<Request("PUT", up.payload)>>, TRUE, "")

\* the PUT of update_cloudhealth and the get_schema after it, for the payload
\* up.payload of the schema own
Put(up, own, id, store, fetched, ack) ==
    IF up.err # "none"
    THEN Outcome(up.err, own, store, <<>>, fetched, "")
    ELSE IF ~ack
    THEN Outcome("HttpError", own, store, <<Request("PUT", up.payload)>>,
                 fetched, "PUT")
    ELSE Outcome("none", Fetch(Replace(store, id, up.payload), id),
                 Replace(store, id, up.payload),
                 <<Request("PUT", up.payload)>>, TRUE, "")

\* Perspective.update_cloudhealth(schema) against the store
Submit(s, id, store, schema, ack) ==
    IF schema # NoSchemaArg
    THEN Put(update_cloudhealth(s, id, schema), s, id, store, FALSE, ack)
    ELSE Put(update_cloudhealth(schema_getter(s, id, store), id, schema),
             schema_getter(s, id, store), id, store, s = ClearedSchema, ack)

\* a variant that submits the name as it is
RenamedNot(s) == s

\* self.name = self.name + str(timestamp)
Renamed(s) == [s EXCEPT !.name = @ \o Timestamp]

\* the DELETE of Perspective.delete and self._schema = None, after the
\* rename went as put says
Deleted(put, id, ack) ==
    IF put.err # "none" THEN put
    ELSE IF ~ack
    THEN Outcome("HttpError", put.schema, put.store,
                 Append(put.sent, Request("DELETE", ClearedSchema)),
                 TRUE, "DELETE")
    ELSE Outcome("none", ClearedSchema, Remove(put.store, id),
                 Append(put.sent, Request("DELETE", ClearedSchema)),
                 TRUE, "")

\* Perspective.delete
delete(s, id, store, ack_put, ack_delete) ==
    Deleted(Put(update_cloudhealth(Renamed(schema_getter(s, id, store)), id,
                                   NoSchemaArg),
                Renamed(schema_getter(s, id, store)), id, store,
                s = ClearedSchema, ack_put),
            id, ack_delete)

\* Perspective.create up to the POST: the name test and the schema the
\* instance takes, [err, schema, ctr, rules, at, ids] as for a spec
CreateLocal(s, ctr, perspective_name, schema, sp) ==
    IF /\ schema # NoSchemaArg \/ sp # NoSpec
       /\ perspective_name
            # (IF schema # NoSchemaArg THEN schema.name ELSE sp.name)
    THEN [err |-> "NameMismatch", schema |-> s, ctr |-> ctr,
          rules |-> sp.rules, at |-> 0, ids |-> {}]
    ELSE IF schema # NoSchemaArg
    THEN [err |-> "none", schema |-> schema, ctr |-> ctr,
          rules |-> sp.rules, at |-> 0, ids |-> {}]
    ELSE IF sp # NoSpec THEN _schema_from_spec(s, ctr, sp)
    ELSE IF s = ClearedSchema THEN NoSchemaToSet(s, ctr, sp)
    ELSE [err |-> "none", schema |-> [s EXCEPT !.name = perspective_name],
          ctr |-> ctr, rules |-> sp.rules, at |-> 0, ids |-> {}]

\* the id test, the POST, the id parsed from the answer and get_schema
CreatePosted(local, id, store, ack) ==
    IF local.err # "none"
    THEN [id |-> id, out |-> Outcome(local.err, local.schema, store, <<>>,
                                     FALSE, "")]
    ELSE IF Truthy(id)
    THEN [id |-> id, out |-> Outcome("Exists", local.schema, store, <<>>,
                                     FALSE, "")]
    ELSE IF ~ack
    THEN [id |-> id,
          out |-> Outcome("HttpError", local.schema, store,
                          <<Request("POST", local.schema)>>, FALSE, "POST")]
    ELSE [id |-> PostMessage(CreatedId)[2],
          out |-> Outcome("none",
                          Fetch(Post(store, local.schema),
                                PostMessage(CreatedId)[2]),
                          Post(store, local.schema),
                          <<Request("POST", local.schema)>>, TRUE, "")]

-----------------------------------------------------------------------------
(* The inputs the operations are called with *)

\* {type: filter, field: env, to: prod}
RuleProd == Rule("filter", "prod", Absent, Scalar("env"), NoKey, NoCondition)
\* a search rule on a tag, with a condition clause, to a group with the name
\* of the "Other" item
RuleSearch ==
    Rule("search", "Other", Absent, NoKey, Scalar("env"),
         Condition(<<Clause(NoKey, Scalar("env"))>>))
\* the same type as the Web GUI spells it, to a name a categorize rule uses too
RuleSearchCap ==
    Rule("Search", "team", Absent, Scalar("env"), NoKey, NoCondition)
\* {type: categorize, field: team, to: team}
RuleCat == Rule("categorize", "team", Absent, Scalar("team"), NoKey, NoCondition)
\* a categorize rule naming its group in ref_id, with `to:` left empty
RuleCatRefId ==
    Rule("categorize", None, "team", Scalar("team"), NoKey, NoCondition)
\* a categorize rule naming its group in ref_id, with no `to` key at all
RuleCatNoTo ==
    Rule("categorize", Absent, "team", Scalar("team"), NoKey, NoCondition)
\* a filter rule naming its group in ref_id, with `to:` left empty
RuleFilterRefId ==
    Rule("filter", None, "prod", Scalar("env"), NoKey, NoCondition)
\* a categorize rule for the group name that RuleProd filters to
RuleCatProd ==
    Rule("categorize", "prod", Absent, Scalar("team"), NoKey, NoCondition)
\* a rule of a type the translation does not know
RuleGroup == Rule("group", "misc", Absent, Scalar("env"), NoKey, NoCondition)
\* the same, naming its group in ref_id, with no `to` key
RuleGroupNoTo ==
    Rule("group", Absent, "misc", Scalar("env"), NoKey, NoCondition)

\* the rules lists of the specs the caller loads
RuleLists ==
    {<<>>,
     <<RuleProd>>,
     <<RuleProd, RuleCat>>,
     <<RuleCat, RuleSearchCap>>,
     <<RuleSearch>>,
     <<RuleSearch, RuleProd>>,
     <<RuleCatRefId>>,
     <<RuleCatNoTo>>,
     <<RuleFilterRefId>>,
     <<RuleGroup>>,
     <<RuleProd, RuleGroup>>,
     <<RuleProd, RuleGroupNoTo>>,
     <<RuleProd, RuleCatProd>>}

\* specs that differ in their name and their include_in_reports
NamedSpecs ==
    {MkSpec(n, f, <<RuleProd>>) :
        n \in {"Env", "Other"}, f \in {Absent, "True", "False"}}

Specs == {MkSpec("Env", Absent, rs) : rs \in RuleLists} \cup NamedSpecs

\* the constants of a perspective that has groups of every kind
ConstsGroups ==
    <<Group("Static Group", <<OtherItem, Item("101", "prod")>>),
      Group("Dynamic Group Block", <<Item("102", "team")>>),
      Group("Dynamic Group", <<Item("103", "auto")>>)>>

SchemaRuleProd ==
    Rule("filter", "101", Absent, List(<<"env">>), NoKey, NoCondition)
SchemaRuleTeam ==
    Rule("categorize", Absent, "102", List(<<"team">>), NoKey, NoCondition)
\* a rule that points at the "Other" item
SchemaRuleToOther ==
    Rule("filter", "1234567890", Absent, List(<<"env">>), NoKey, NoCondition)
\* a rule whose field list has two elements
SchemaRuleTwoFields ==
    Rule("filter", "101", Absent, List(<<"env", "team">>), NoKey, NoCondition)
\* a rule with a clause whose tag_field list is empty
SchemaRuleEmptyClause ==
    Rule("filter", "101", Absent, List(<<"env">>), NoKey,
         Condition(<<Clause(NoKey, List(<<"env">>)), Clause(NoKey, List(<<>>))>>))

\* the schemas the store may hold at the start
RemoteSchemas ==
    {Schema("Other", "False", <<"m">>, ConstsGroups,
            <<SchemaRuleProd, SchemaRuleTeam, SchemaRuleToOther>>),
     Schema("Env", "True", <<>>, ConstsGroups,
            <<SchemaRuleProd, SchemaRuleTwoFields>>),
     Schema("Env", "True", <<>>, ConstsGroups,
            <<SchemaRuleEmptyClause, SchemaRuleTeam>>)}

\* the schemas a caller passes to PerspectiveClient.update
SchemaArgEnv == Schema("Env", "False", <<>>, ConstsGroups, <<SchemaRuleTeam>>)

SchemaArgs ==
    {SchemaArgEnv,
     Schema("Other", "True", <<>>, DefaultSchema.constants, <<>>)}

PerspectiveInputs == {PerspectiveId, "Env", "Other"}

GroupNames == {"prod", "team", "misc"}

Call(op, err) ==
    [op |-> op, err |-> err, name |-> "", kind |-> "", ret |-> "",
     again |-> FALSE, schema_arg |-> "", spec_arg |-> "", at |-> 0,
     schema |-> ClearedSchema, fetched |-> FALSE, request |-> ""]

\* the two callers of the interleaved updates
Clients == {1, 2}

\* a caller that has not fetched the perspective yet: pc is where it is
\* (idle, fetched, changed, replaced), schema, id and ctr are _schema, id and
\* _new_ref_id of its instance, base is the schema as it fetched it, payload,
\* err and ack are the schema of its PUT, the error of its update_cloudhealth
\* and whether the transport delivered the PUT
Idle ==
    [pc |-> "idle", schema |-> DefaultSchema, id |-> None, ctr |-> StartRefId,
     base |-> DefaultSchema, payload |-> NoSchemaArg, err |-> "none",
     ack |-> FALSE]

\* the specs the two callers apply
ClientSpecs ==
    {MkSpec("Env", Absent, <<RuleProd>>),
     MkSpec("Env", Absent, <<RuleCat, RuleSearchCap>>)}

-----------------------------------------------------------------------------
(* The state machine *)

Init ==
    /\ _schema = DefaultSchema
    /\ _new_ref_id = StartRefId
    /\ _id = None
    /\ remote \in {StoreOf(s) : s \in RemoteSchemas}
    /\ spec = NoSpec
    /\ given = NoSpec
    /\ derived = NoSpec
    /\ issued = {}
    /\ sent = <<>>
    /\ call = Call("__init__", "none")
    /\ clients = [c \in Clients |-> Idle]

\* Perspective(http_client): a new unbound instance
New ==
    /\ _schema' = DefaultSchema
    /\ _new_ref_id' = StartRefId
    /\ _id' = None
    /\ issued' = {}
    /\ sent' = <<>>
    /\ call' = Call("__init__", "none")
    /\ spec' = NoSpec /\ given' = NoSpec /\ derived' = NoSpec
    /\ UNCHANGED <<remote, clients>>

\* PerspectiveClient.get(perspective_input): a new instance bound to the id,
\* with the schema the store holds
ClientGet(perspective_input) ==
    LET r == client_get(remote, perspective_input) IN
    /\ _schema' = r.schema
    /\ _new_ref_id' = StartRefId
    /\ _id' = r.id
    /\ issued' = {}
    /\ sent' = <<>>
    /\ call' = [Call("get", r.err) EXCEPT !.name = perspective_input,
                                          !.fetched = TRUE]
    /\ spec' = NoSpec /\ given' = NoSpec /\ derived' = NoSpec
    /\ UNCHANGED <<remote, clients>>

\* perspective.spec = sp, for the spec object sp; again says that sp is the
\* object the caller passed before
Applied(r, sp, again) ==
    /\ r.ctr <= MaxRefId
    /\ _schema' = r.schema
    /\ _new_ref_id' = r.ctr
    /\ issued' = issued \cup r.ids
    /\ spec' = [sp EXCEPT !.rules = r.rules]
    /\ given' = sp
    /\ sent' = <<>>
    /\ call' = [Call("spec_setter", r.err) EXCEPT !.at = r.at, !.again = again]
    /\ derived' = NoSpec
    /\ UNCHANGED <<_id, remote, clients>>

ApplySpec(sp, again) ==
    Applied(spec_setter(_schema, _new_ref_id, sp), sp, again)

\* the caller loads a spec and assigns it
SetSpec(sp) == ApplySpec(sp, FALSE)

\* the caller assigns once more the spec object it has just assigned
SetSpecAgain ==
    /\ call.op = "spec_setter"
    /\ ApplySpec(spec, TRUE)

Got(r) ==
    /\ derived' = r.spec
    /\ sent' = <<>>
    /\ call' = Call("spec_getter", r.err)
    /\ spec' = NoSpec /\ given' = NoSpec
    /\ _schema' = r.live
    /\ UNCHANGED <<_new_ref_id, _id, remote, issued, clients>>

\* a read of perspective.spec
GetSpec == Got(_spec_from_schema(_schema))

ConstantAdded(r, constant_name, constant_type) ==
    /\ r.ctr <= MaxRefId
    /\ _schema' = r.schema
    /\ _new_ref_id' = r.ctr
    /\ issued' = IF r.new THEN issued \cup {r.ret} ELSE issued
    /\ sent' = <<>>
    /\ call' = [Call("_add_constant", "none") EXCEPT
                    !.name = constant_name, !.kind = constant_type,
                    !.ret = r.ret,
                    !.again = /\ call.op = "_add_constant"
                              /\ call.name = constant_name
                              /\ call.kind = constant_type]
    /\ spec' = NoSpec /\ given' = NoSpec /\ derived' = NoSpec
    /\ UNCHANGED <<_id, remote, clients>>

\* a call of _add_constant(constant_name, constant_type)
AddConstant(constant_name, constant_type) ==
    ConstantAdded(_add_constant(_schema, _new_ref_id, constant_name,
                                constant_type),
                  constant_name, constant_type)

RefIdReturned(n) ==
    /\ n <= MaxRefId
    /\ _new_ref_id' = n
    /\ issued' = issued \cup {Str(n)}
    /\ sent' = <<>>
    /\ call' = [Call("_get_new_ref_id", "none") EXCEPT !.ret = Str(n)]
    /\ spec' = NoSpec /\ given' = NoSpec /\ derived' = NoSpec
    /\ UNCHANGED <<_schema, _id, remote, clients>>

\* a read of the property _get_new_ref_id
GetNewRefId == RefIdReturned(_get_new_ref_id(_schema, _new_ref_id))

\* PerspectiveClient.update(perspective_input, schema, spec). The instance of
\* the model is the one update builds, as it is when update returns or raises.
ClientUpdate(perspective_input, schema_arg, schema, spec_arg, sp) ==
    LET got == client_get(remote, perspective_input)
        err == IF got.err # "none" THEN got.err
               ELSE client_update_check(got.schema.name, schema_arg, schema,
                                        spec_arg, sp)
        up == update_cloudhealth(got.schema, got.id,
                                 IF schema_arg = "dict" THEN schema
                                 ELSE NoSchemaArg)
        ok == err = "none" /\ up.err = "none"
    IN
    /\ remote' = IF ok THEN Replace(remote, got.id, up.payload) ELSE remote
    /\ _schema' = IF ok THEN Fetch(remote', got.id) ELSE got.schema
    /\ _new_ref_id' = StartRefId
    /\ _id' = got.id
    /\ issued' = {}
    /\ sent' = IF ok THEN <<Request("PUT", up.payload)>> ELSE <<>>
    /\ given' = IF spec_arg = "dict" THEN sp ELSE NoSpec
    /\ spec' = IF spec_arg = "dict" THEN sp ELSE NoSpec
    /\ call' = [Call("update", IF err # "none" THEN err ELSE up.err) EXCEPT
                    !.name = perspective_input,
                    !.schema_arg = schema_arg, !.spec_arg = spec_arg,
                    !.schema = IF schema_arg = "dict" THEN schema
                               ELSE ClearedSchema,
                    !.fetched = TRUE]
    /\ derived' = NoSpec
    /\ UNCHANGED clients

\* an operation of the instance that talks to the store, with outcome r
Requested(r, op, schema) ==
    /\ _schema' = r.schema
    /\ remote' = r.store
    /\ sent' = r.sent
    /\ call' = [Call(op, r.err) EXCEPT !.schema = schema,
                                      !.fetched = r.fetched,
                                      !.request = r.request]
    /\ spec' = NoSpec /\ given' = NoSpec /\ derived' = NoSpec
    /\ UNCHANGED <<_new_ref_id, _id, issued, clients>>

\* perspective.update_cloudhealth(schema)
UpdateCloudhealth(schema, ack) ==
    Requested(Submit(_schema, _id, remote, schema, ack),
              "update_cloudhealth", schema)

\* the names a perspective has before a delete renames it
PlainNames == {"EMPTY", "Empty", "Env", "Other"}

\* perspective.delete()
Delete(ack_put, ack_delete) ==
    /\ schema_getter(_schema, _id, remote).name \in PlainNames
    /\ Requested(delete(_schema, _id, remote, ack_put, ack_delete),
                 "delete", NoSchemaArg)

\* a read of perspective.name
ReadName ==
    Requested(Outcome("none", schema_getter(_schema, _id, remote), remote,
                      <<>>, _schema = ClearedSchema, ""),
              "name", NoSchemaArg)

Created(local, posted, perspective_name, schema, sp) ==
    /\ local.ctr <= MaxRefId
    /\ _schema' = posted.out.schema
    /\ _new_ref_id' = local.ctr
    /\ _id' = posted.id
    /\ issued' = issued \cup local.ids
    /\ remote' = posted.out.store
    /\ sent' = posted.out.sent
    /\ spec' = IF sp # NoSpec THEN [sp EXCEPT !.rules = local.rules]
               ELSE NoSpec
    /\ given' = sp
    /\ derived' = NoSpec
    /\ call' = [Call("create", posted.out.err) EXCEPT
                    !.name = perspective_name, !.schema = schema,
                    !.fetched = posted.out.fetched,
                    !.request = posted.out.request, !.at = local.at]
    /\ UNCHANGED clients

CreatedFrom(local, perspective_name, schema, sp, ack) ==
    Created(local, CreatePosted(local, _id, remote, ack), perspective_name,
            schema, sp)

\* perspective.create(perspective_name, schema, spec); the store of the model
\* has room for one created perspective
Create(perspective_name, schema, sp, ack) ==
    /\ Truthy(_id) \/ ~Exists(remote, CreatedId)
    /\ CreatedFrom(CreateLocal(_schema, _new_ref_id, perspective_name,
                               schema, sp),
                   perspective_name, schema, sp, ack)

-----------------------------------------------------------------------------
(* Specifications. Each follows one Perspective instance at a time against one
   remote perspective; they differ in the operations the caller uses. *)

Construct ==
    \/ New
    \/ \E perspective_input \in PerspectiveInputs : ClientGet(perspective_input)

\* the spec <-> schema translation: the caller assigns and reads
\* perspective.spec
Next ==
    \/ Construct
    \/ \E sp \in Specs : SetSpec(sp)
    \/ SetSpecAgain
    \/ GetSpec

Spec == Init /\ [][Next]_vars

\* the constant registry and the ref_id allocator, called on their own
NextRegistry ==
    \/ Construct
    \/ \E constant_name \in GroupNames, constant_type \in constant_types :
            AddConstant(constant_name, constant_type)
    \/ GetNewRefId

SpecRegistry == Init /\ [][NextRegistry]_vars

\* PerspectiveClient.update with every combination of its schema and spec
\* arguments
Update ==
    \E perspective_input \in PerspectiveInputs :
        \/ ClientUpdate(perspective_input, "None", NoSchemaArg, "None", NoSpec)
        \/ \E sp \in NamedSpecs :
              \/ ClientUpdate(perspective_input, "None", NoSchemaArg, "dict", sp)
              \/ ClientUpdate(perspective_input, "{}", NoSchemaArg, "dict", sp)
        \/ \E schema \in SchemaArgs :
              \/ ClientUpdate(perspective_input, "dict", schema, "None", NoSpec)
              \/ \E sp \in NamedSpecs :
                    ClientUpdate(perspective_input, "dict", schema, "dict", sp)

NextClient ==
    \/ Construct
    \/ Update
    \/ GetSpec

SpecClient == Init /\ [][NextClient]_vars

\* caller c gets the perspective: PerspectiveClient.get(PerspectiveId)
Fetched(c, r) ==
    /\ clients[c].pc = "idle"
    /\ clients' = [clients EXCEPT ![c] = [@ EXCEPT !.pc = "fetched",
                                                   !.schema = r.schema,
                                                   !.id = r.id,
                                                   !.base = r.schema]]
    /\ UNCHANGED <<_schema, _new_ref_id, _id, remote, spec, given, derived,
                   issued, sent, call>>

ClientFetch(c) == Fetched(c, client_get(remote, PerspectiveId))

\* caller c assigns a spec to its instance, in memory
Changed(c, r) ==
    /\ clients[c].pc = "fetched"
    /\ r.err = "none"
    /\ r.ctr <= MaxRefId
    /\ clients' = [clients EXCEPT ![c] = [@ EXCEPT !.pc = "changed",
                                                   !.schema = r.schema,
                                                   !.ctr = r.ctr]]
    /\ UNCHANGED <<_schema, _new_ref_id, _id, remote, spec, given, derived,
                   issued, sent, call>>

ClientChange(c, sp) ==
    Changed(c, spec_setter(clients[c].schema, clients[c].ctr, sp))

\* caller c calls update_cloudhealth() on its instance, with outcome r
Replaced(c, r, ack) ==
    /\ clients[c].pc \in {"fetched", "changed"}
    /\ remote' = r.store
    /\ clients' = [clients EXCEPT ![c] =
                        [@ EXCEPT !.pc = "replaced",
                                  !.schema = r.schema,
                                  !.payload = IF r.sent = <<>> THEN NoSchemaArg
                                              ELSE r.sent[1].schema,
                                  !.err = r.err,
                                  !.ack = ack]]
    /\ UNCHANGED <<_schema, _new_ref_id, _id, spec, given, derived, issued,
                   sent, call>>

ClientReplace(c, ack) ==
    Replaced(c, Submit(clients[c].schema, clients[c].id, remote, NoSchemaArg,
                       ack), ack)

NextTwoClients ==
    \E c \in Clients :
        \/ ClientFetch(c)
        \/ \E sp \in ClientSpecs : ClientChange(c, sp)
        \/ \E ack \in BOOLEAN : ClientReplace(c, ack)

SpecTwoClients == Init /\ [][NextTwoClients]_vars

\* the life of an instance against the store: create, update_cloudhealth,
\* delete, and what a caller may still try on an instance whose schema a
\* delete has cleared
LifecycleSpecs == {MkSpec(n, Absent, <<RuleProd>>) : n \in {"Env", "Other"}}

CreateCalls ==
    \E ack \in BOOLEAN :
        \/ Create("Env", NoSchemaArg, NoSpec, ack)
        \/ \E schema \in SchemaArgs : Create("Env", schema, NoSpec, ack)
        \/ \E sp \in LifecycleSpecs : Create("Env", NoSchemaArg, sp, ack)

NextLifecycle ==
    \/ Construct
    \/ CreateCalls
    \/ \E schema \in {SchemaArgEnv, NoSchemaArg}, ack \in BOOLEAN :
            UpdateCloudhealth(schema, ack)
    \/ \E ack_put \in BOOLEAN, ack_delete \in BOOLEAN :
            Delete(ack_put, ack_delete)
    \/ ReadName
    \/ _schema = ClearedSchema /\ \E sp \in LifecycleSpecs : SetSpec(sp)
    \/ _schema = ClearedSchema /\ GetSpec

\* the store holds the perspective "Other" at the start
InitLifecycle ==
    /\ Init
    /\ Fetch(remote, PerspectiveId).name = "Other"

SpecLifecycle == InitLifecycle /\ [][NextLifecycle]_vars

-----------------------------------------------------------------------------
(* Vocabulary of the properties *)

AllItems(s) == Flatten([i \in 1..Len(s.constants) |-> s.constants[i].list])

\* the names of the groups a rule can refer to
GroupNamesIn(s) ==
    {RefItems(s)[i].name :
        i \in {j \in 1..Len(RefItems(s)) : ~RefItems(s)[j].is_other}}

\* the ref_id a schema rule refers to, whichever key carries it
RuleRef(rule) == IF rule.to = Absent THEN rule.ref_id ELSE rule.to

RuleRefs(s) == [i \in 1..Len(s.rules) |-> RuleRef(s.rules[i])]

\* the group name a spec rule carries, whichever key is populated
GroupNameOf(rule) ==
    IF rule.to \notin {Absent, None, ""} THEN rule.to ELSE rule.ref_id

IsScalar(value) == value.k # "list"

ScalarRule(rule) ==
    /\ IsScalar(rule.field) /\ IsScalar(rule.tag_field)
    /\ \A i \in 1..Len(rule.condition.clauses) :
            /\ IsScalar(rule.condition.clauses[i].field)
            /\ IsScalar(rule.condition.clauses[i].tag_field)

\* the specs the round trip is claimed for
RoundTripSpec(sp) ==
    \A i \in 1..Len(sp.rules) :
        /\ sp.rules[i].type \in {"filter", "search", "categorize"}
        /\ ScalarRule(sp.rules[i])

RuleTuple(type, rule, name) ==
    <<type, name, rule.field, rule.tag_field, rule.condition>>

SpecTuples(rules) ==
    {RuleTuple(rules[i].type, rules[i], GroupNameOf(rules[i])) :
        i \in 1..Len(rules)}

DerivedTuples(rules) ==
    {RuleTuple(rules[i].type, rules[i], rules[i].to) : i \in 1..Len(rules)}

SetterSucceeded == call.op = "spec_setter" /\ call.err = "none"

-----------------------------------------------------------------------------
(* C1 -- round trip *)

\* C1: after a spec with filter / search / categorize rules and scalar fields
\* is assigned, the assignment has returned and the spec derived from the
\* schema has rules set-equal to the spec's rules as they were passed in,
\* compared by (type, group name, field, condition)
C1_RoundTrip ==
    (call.op = "spec_setter" /\ RoundTripSpec(given)) =>
        /\ call.err = "none"
        /\ _spec_from_schema(_schema).err = "none"
        /\ DerivedTuples(_spec_from_schema(_schema).spec.rules)
                = SpecTuples(given.rules)

-----------------------------------------------------------------------------
(* C2 -- the same spec assigned twice *)

\* C2: when the caller assigns the spec it has just assigned, the second
\* assignment succeeds, adds no constant item, and every rule refers to the
\* ref_id the first assignment gave it
C2_SameSpecTwice ==
    [][(SetterSucceeded /\ call'.op = "spec_setter" /\ call'.again) =>
            /\ call'.err = "none"
            /\ Len(AllItems(_schema')) = Len(AllItems(_schema))
            /\ RuleRefs(_schema') = RuleRefs(_schema)]_vars

-----------------------------------------------------------------------------
(* C3 -- PerspectiveClient.update with a spec *)

UpdateWithSpecOnly(c) ==
    c.op = "update" /\ c.spec_arg = "dict" /\ c.schema_arg = "None"

\* C3: an update with a spec and no schema, of a perspective that exists and
\* has the spec's name, PUTs the fetched schema with the spec translated into
\* it
C3_UpdateSubmitsTranslation ==
    [][(/\ UpdateWithSpecOnly(call')
        /\ Fetch(remote, _get_perspective_id(remote, call'.name)).name
                = given'.name) =>
            sent' = <<Request("PUT",
                        update_cloudhealth(
                            _schema_from_spec(Fetch(remote, PerspectiveId),
                                              StartRefId, given').schema,
                            PerspectiveId, NoSchemaArg).payload)>>]_vars

-----------------------------------------------------------------------------
(* C4 -- allocator uniqueness *)

NoDuplicateRefIds(s) == Cardinality(ExistingRefIds(s)) = Len(RefItems(s))

Constructors == {"__init__", "get", "update"}

\* the step returned a new ref_id
Allocated ==
    \/ call'.op = "_get_new_ref_id"
    \/ call'.op = "_add_constant" /\ _schema' # _schema

\* C4: a ref_id the allocator returns is none of the ref_ids of the 'Static
\* Group' and 'Dynamic Group Block' constants and none it returned to the
\* instance before; the counter of an instance starts at 100 and only
\* increases; the ref_ids of those constants stay pairwise distinct
C4_AllocatorUnique ==
    [][/\ Allocated =>
            /\ call'.ret \notin ExistingRefIds(_schema)
            /\ call'.ret \notin issued
            /\ call'.ret = Str(_new_ref_id')
       /\ call'.op \in Constructors => _new_ref_id' = StartRefId
       /\ call'.op \notin Constructors => _new_ref_id' >= _new_ref_id
       /\ NoDuplicateRefIds(_schema) => NoDuplicateRefIds(_schema')]_vars

\* the allocator had to pass over ids the fetched schema uses, after it had
\* returned another id to the instance
C4_Witness ==
    /\ call.op = "_add_constant"
    /\ _id = PerspectiveId
    /\ call.ret = "104"
    /\ issued = {"103", "104"}
    /\ "101" \in ExistingRefIds(_schema)

-----------------------------------------------------------------------------
(* C5 -- idempotent ensure *)

\* C5: _add_constant called again with the same arguments returns the same
\* ref_id, leaves the constants as they are and does not advance the counter
C5_EnsureIdempotent ==
    [][(call'.op = "_add_constant" /\ call'.again) =>
            /\ call'.ret = call.ret
            /\ _schema' = _schema
            /\ _new_ref_id' = _new_ref_id]_vars

\* the second of two calls, the first of which created the group in a
\* 'Dynamic Group Block' constant that it had to create too
C5_Witness ==
    /\ call.op = "_add_constant"
    /\ call.again
    /\ call.kind = "Dynamic Group Block"
    /\ call.ret \in issued
    /\ _id = None

-----------------------------------------------------------------------------
(* C6 -- name mismatch on update *)

\* C6: an update with a spec whose name is not the perspective's fails with
\* NameMismatch, with the fetched schema untouched and nothing sent
C6_NameMismatch ==
    [][(/\ UpdateWithSpecOnly(call')
        /\ call'.err # "NotFound"
        /\ Fetch(remote, _get_perspective_id(remote, call'.name)).name
                # given'.name) =>
            /\ call'.err = "NameMismatch"
            /\ _schema' = Fetch(remote, PerspectiveId)
            /\ sent' = <<>>
            /\ remote' = remote]_vars

-----------------------------------------------------------------------------
(* C7 -- unresolved reference on derive *)

Unresolved(s, rule) ==
    \A i \in 1..Len(RefItems(s)) :
        RefItems(s)[i].ref_id = RuleRef(rule) => RefItems(s)[i].is_other

\* C7: a read of the spec of a schema with a rule that refers to no group
\* fails with UnresolvedReference and returns nothing; no derived rule has an
\* empty `to`
C7_UnresolvedFails ==
    call.op = "spec_getter" =>
        /\ (\E i \in 1..Len(_schema.rules) : Unresolved(_schema, _schema.rules[i]))
                => (call.err = "UnresolvedReference" /\ derived = NoSpec)
        /\ \A i \in 1..Len(derived.rules) : derived.rules[i].to # None

-----------------------------------------------------------------------------
(* C8 -- malformed field on derive *)

BadList(value) == value.k = "list" /\ Len(value.v) # 1

BadClause(rule) ==
    \E i \in 1..Len(rule.condition.clauses) :
        \/ BadList(rule.condition.clauses[i].field)
        \/ BadList(rule.condition.clauses[i].tag_field)

BadRule(rule) ==
    BadList(rule.field) \/ BadList(rule.tag_field) \/ BadClause(rule)

\* C8: a read of the spec of a schema in which a rule, or a clause of a rule,
\* has a field or tag_field list of a length other than one fails with
\* MalformedRuleField and returns no spec
C8_MalformedFails ==
    (/\ call.op = "spec_getter"
     /\ \E i \in 1..Len(_schema.rules) : BadRule(_schema.rules[i])) =>
        call.err = "MalformedRuleField" /\ derived = NoSpec

\* the read failed on a two-element field list of a rule
C8_Witness ==
    /\ call.op = "spec_getter"
    /\ call.err = "MalformedRuleField"
    /\ \E i \in 1..Len(_schema.rules) : Len(_schema.rules[i].field.v) = 2

-----------------------------------------------------------------------------
(* C9 -- rule types *)

RuleTypes == {"filter", "search", "categorize"}

\* the group names of the rules before rule i
NamedBefore(rules, i) == {GroupNameOf(rules[j]) : j \in 1..(i - 1)}

\* C9: of the rules an assignment of a spec comes to, one whose type is
\* "filter", "search" or "categorize" is translated, a "search" rule being
\* stored with type "filter"; any other makes the assignment fail with
\* UnknownRuleType at that rule, with no constant created and no rule
\* appended for it
C9_RuleTypes ==
    [][call'.op = "spec_setter" =>
        \A i \in 1..Len(given'.rules) :
            (call'.at = 0 \/ i <= call'.at) =>
                IF given'.rules[i].type \in RuleTypes
                THEN /\ ~(call'.err = "UnknownRuleType" /\ call'.at = i)
                     /\ (call'.at # i /\ given'.rules[i].type = "search")
                            => _schema'.rules[i].type = "filter"
                ELSE /\ call'.err = "UnknownRuleType"
                     /\ call'.at = i
                     /\ Len(_schema'.rules) = i - 1
                     /\ GroupNamesIn(_schema') \subseteq
                            GroupNamesIn(_schema)
                                \cup NamedBefore(given'.rules, i)]_vars

-----------------------------------------------------------------------------
(* C10 -- include_in_reports *)

\* C10: after a spec is assigned, the schema's include_in_reports is the
\* spec's when the spec carries one, true or false, and is what it was when
\* the spec carries none
C10_IncludeInReports ==
    [][(call'.op = "spec_setter" /\ call'.err = "none") =>
            _schema'.include_in_reports =
                IF given'.include_in_reports # Absent
                THEN given'.include_in_reports
                ELSE _schema.include_in_reports]_vars

-----------------------------------------------------------------------------
(* C11 -- the rules are replaced *)

\* the key a schema rule keeps its group in
StoredRef(rule) ==
    IF Lower(rule.type) = "categorize" THEN rule.ref_id ELSE rule.to

\* schema rule r is the translation of spec rule sr: the same field values,
\* now lists, and the group sr names
TranslationOf(s, r, sr) ==
    /\ r.field.v = sr.field.v
    /\ r.tag_field.v = sr.tag_field.v
    /\ Len(r.condition.clauses) = Len(sr.condition.clauses)
    /\ _get_name_by_ref_id(s, StoredRef(r)) = GroupNameOf(sr)

\* C11: after a spec is assigned, the rules of the schema are the
\* translations of the rules of that spec, one for one and in their order,
\* whatever rules the schema had; every constant item the schema had is still
\* there
C11_RulesReplaced ==
    [][(call'.op = "spec_setter" /\ call'.err = "none") =>
            /\ Len(_schema'.rules) = Len(given'.rules)
            /\ \A i \in 1..Len(given'.rules) :
                    TranslationOf(_schema', _schema'.rules[i], given'.rules[i])
            /\ \A i \in 1..Len(AllItems(_schema)) :
                    \E j \in 1..Len(AllItems(_schema')) :
                        AllItems(_schema')[j] = AllItems(_schema)[i]]_vars

\* a one-rule spec was assigned to a fetched perspective after a spec that
\* created a group named "Other"
C11_Witness ==
    /\ SetterSucceeded
    /\ _id = PerspectiveId
    /\ given.rules = <<RuleProd>>
    /\ Len(_schema.rules) = 1
    /\ "Other" \in GroupNamesIn(_schema)

-----------------------------------------------------------------------------
(* C12 -- the kind of the constant a rule refers to *)

\* the ref_ids of the items of the constants of one type, "Other" left out
RefIdsOfKind(s, constant_type) ==
    UNION {{s.constants[g].list[k].ref_id :
                k \in {n \in 1..Len(s.constants[g].list) :
                          ~s.constants[g].list[n].is_other}} :
            g \in {n \in 1..Len(s.constants) :
                      s.constants[n].type = constant_type}}

\* every rule refers to an item of the constant of its kind
ReferenceKind(s) ==
    \A i \in 1..Len(s.rules) :
        IF Lower(s.rules[i].type) = "categorize"
        THEN s.rules[i].ref_id \in RefIdsOfKind(s, "Dynamic Group Block")
        ELSE s.rules[i].to \in RefIdsOfKind(s, "Static Group")

\* C12 as the spec states it: after any spec is assigned, every filter rule's
\* `to` is the ref_id of an item, not "Other", of a 'Static Group' constant
\* and every categorize rule's `ref_id` is the ref_id of an item of a
\* 'Dynamic Group Block' constant
C12_ReferenceKind == SetterSucceeded => ReferenceKind(_schema)

\* the names of the items of the constants of one type, "Other" left out
NamesOfKind(s, constant_type) ==
    UNION {{s.constants[g].list[k].name :
                k \in {n \in 1..Len(s.constants[g].list) :
                          ~s.constants[g].list[n].is_other}} :
            g \in {n \in 1..Len(s.constants) :
                      s.constants[n].type = constant_type}}

KindOf(rule) == ConstantType(Lower(rule.type))

OtherKind(constant_type) ==
    IF constant_type = "Static Group"
    THEN "Dynamic Group Block" ELSE "Static Group"

\* no rule names a group that schema s holds under the other kind, or that
\* an earlier rule of the other kind names
NoKindCollision(s, rules) ==
    \A i \in 1..Len(rules) :
        /\ GroupNameOf(rules[i]) \notin NamesOfKind(s, OtherKind(KindOf(rules[i])))
        /\ \A j \in 1..(i - 1) :
                GroupNameOf(rules[j]) = GroupNameOf(rules[i])
                    => KindOf(rules[j]) = KindOf(rules[i])

\* C12 as amended: the same, for the specs in which no group name is used
\* under one kind while the schema or an earlier rule has it under the other
C12_ReferenceKindNoCollision ==
    [][(/\ call'.op = "spec_setter"
        /\ call'.err = "none"
        /\ NoKindCollision(_schema, given'.rules)) =>
            ReferenceKind(_schema')]_vars

\* a filter rule and a categorize rule were assigned to a new Perspective,
\* which had no 'Dynamic Group Block' constant
C12_Witness ==
    /\ SetterSucceeded
    /\ _id = None
    /\ given.rules = <<RuleProd, RuleCat>>
    /\ RefIdsOfKind(_schema, "Dynamic Group Block") # {}

-----------------------------------------------------------------------------
(* C13 -- a deleted instance *)

Verbs(requests) == {requests[i].verb : i \in 1..Len(requests)}

\* C13: a delete that returns leaves the schema cleared, and no operation on
\* an instance whose schema has been cleared returns, fetches a schema from
\* the store or sends a PUT or a DELETE
C13_DeletedTerminal ==
    [][/\ (call'.op = "delete" /\ call'.err = "none")
            => _schema' = ClearedSchema
       /\ (_schema = ClearedSchema /\ call'.op \notin Constructors) =>
            /\ call'.err # "none"
            /\ ~call'.fetched
            /\ Verbs(sent') \cap {"PUT", "DELETE"} = {}]_vars

-----------------------------------------------------------------------------
(* C14 -- which instance writes to the store *)

\* C14: a PUT is sent only by an instance that has an id, and
\* update_cloudhealth on one that has none fails and sends nothing; a POST is
\* sent only by an instance that has no id, and create on one that has an id
\* fails and sends no POST; after a create that returns, the instance has the
\* id the store gave and the schema the store holds for it
C14_LifecycleGuards ==
    [][/\ "PUT" \in Verbs(sent') => Truthy(_id)
       /\ (call'.op = "update_cloudhealth" /\ ~Truthy(_id)) =>
            call'.err # "none" /\ sent' = <<>>
       /\ "POST" \in Verbs(sent') => ~Truthy(_id)
       /\ (call'.op = "create" /\ Truthy(_id)) =>
            call'.err # "none" /\ "POST" \notin Verbs(sent')
       /\ (call'.op = "create" /\ call'.err = "none") =>
            /\ _id' = CreatedId
            /\ Exists(remote', _id')
            /\ _schema' = Fetch(remote', _id')]_vars

\* a new instance created the perspective "Env" from a spec
C14_Witness ==
    /\ call.op = "create"
    /\ call.err = "none"
    /\ _id = CreatedId
    /\ Verbs(sent) = {"POST"}
    /\ given # NoSpec
    /\ _schema.name = "Env"

-----------------------------------------------------------------------------
(* C15 -- the payload of a PUT *)

RECURSIVE KeptConstants(_)
\* the constants of types other than 'Dynamic Group', in their order
KeptConstants(constants) ==
    IF constants = <<>> THEN <<>>
    ELSE IF Head(constants).type = "Dynamic Group"
    THEN KeptConstants(Tail(constants))
    ELSE <<Head(constants)>> \o KeptConstants(Tail(constants))

\* the schema an operation submits: the one passed, else the instance's own
Submitted(c, s, id, store) ==
    IF c.schema # NoSchemaArg THEN c.schema ELSE schema_getter(s, id, store)

\* C15: the schema of every PUT has no constant of type 'Dynamic Group' and
\* has every other constant of the schema submitted, in the same order,
\* whether that is the instance's schema or one passed as argument
C15_PayloadStripped ==
    [][\A i \in 1..Len(sent') :
            sent'[i].verb = "PUT" =>
                /\ \A k \in 1..Len(sent'[i].schema.constants) :
                        sent'[i].schema.constants[k].type # "Dynamic Group"
                /\ sent'[i].schema.constants =
                        KeptConstants(Submitted(call', _schema, _id,
                                                remote).constants)]_vars

\* update_cloudhealth() sent the schema of a fetched perspective, which had a
\* 'Dynamic Group' constant among its three
C15_Witness ==
    /\ call.op = "update_cloudhealth"
    /\ call.err = "none"
    /\ call.schema = NoSchemaArg
    /\ Len(sent) = 1
    /\ Len(sent[1].schema.constants) = 2
    /\ sent[1].schema.name = "Other"

-----------------------------------------------------------------------------
(* C16 -- the order of the requests of delete *)

\* C16: a DELETE is sent only after a PUT of the schema under its name with
\* the timestamp appended, which the store took; when that PUT is not sent or
\* fails, no DELETE is sent and the schema is not cleared
C16_DeleteOrdering ==
    [][call'.op = "delete" =>
        /\ \A i \in 1..Len(sent') :
                sent'[i].verb = "DELETE" =>
                    /\ i = 2
                    /\ sent'[1].verb = "PUT"
                    /\ sent'[1].schema.name =
                            schema_getter(_schema, _id, remote).name
                                \o Timestamp
                    /\ call'.request # "PUT"
        /\ (call'.err # "none" /\ call'.request # "DELETE") =>
                /\ "DELETE" \notin Verbs(sent')
                /\ _schema' # ClearedSchema]_vars

\* a delete of a fetched perspective returned: the PUT, then the DELETE, and
\* the store holds the perspective no more
C16_Witness ==
    /\ call.op = "delete"
    /\ call.err = "none"
    /\ Verbs(sent) = {"PUT", "DELETE"}
    /\ _schema = ClearedSchema
    /\ ~Exists(remote, PerspectiveId)

-----------------------------------------------------------------------------
(* C17 -- scenario A *)

ScenarioASpec == MkSpec("Env", Absent, <<RuleProd>>)

\* C17: on a new Perspective, whose schema is named "EMPTY" and has one
\* 'Static Group' constant with the "Other" item only, the assignment of the
\* spec {name: Env, rules: [{type: filter, field: env, to: prod}]} gives a
\* schema named "Env" whose 'Static Group' constant has gained the item
\* {ref_id: "101", name: "prod"} and whose rules are
\* [{type: filter, field: [env], to: "101"}]
C17_ScenarioA ==
    [][(/\ call.op = "__init__"
        /\ _id = None
        /\ call'.op = "spec_setter"
        /\ given' = ScenarioASpec) =>
            /\ _schema.name = "EMPTY"
            /\ _schema.constants = <<Group("Static Group", <<OtherItem>>)>>
            /\ call'.err = "none"
            /\ _schema'.name = "Env"
            /\ _schema'.constants =
                    <<Group("Static Group",
                            <<OtherItem, Item("101", "prod")>>)>>
            /\ _schema'.rules =
                    <<Rule("filter", "101", Absent, List(<<"env">>), NoKey,
                           NoCondition)>>
            /\ _schema'.merges = _schema.merges]_vars

\* the spec of the scenario was assigned to a new Perspective
C17_Witness ==
    /\ SetterSucceeded
    /\ ~call.again
    /\ given = ScenarioASpec
    /\ _id = None
    /\ _new_ref_id = StartRefId + 1
    /\ issued = {"101"}

-----------------------------------------------------------------------------
(* C18 -- where the group name comes from *)

\* C18: every rule of an accepted type that names its group in `to`, or in
\* `ref_id` with `to` empty or missing, is translated: the schema rule of a
\* categorize rule has the ref_id of the group of that name in `ref_id` and
\* no `to`, that of a filter rule has it in `to`
C18_GroupNameSource ==
    [][call'.op = "spec_setter" =>
        \A i \in 1..Len(given'.rules) :
            (/\ call'.at = 0 \/ i <= call'.at
             /\ Lower(given'.rules[i].type) \in RuleTypes
             /\ Truthy(GroupNameOf(given'.rules[i]))) =>
                /\ call'.at # i
                /\ call'.err = "none" =>
                    /\ StoredRef(_schema'.rules[i])
                            = _get_ref_id_by_name(_schema',
                                                  GroupNameOf(given'.rules[i]))
                    /\ Lower(given'.rules[i].type) = "categorize"
                            => _schema'.rules[i].to = Absent]_vars

-----------------------------------------------------------------------------
(* C19 -- what a spec application leaves alone *)

IsPrefix(a, b) ==
    Len(a) <= Len(b) /\ \A i \in 1..Len(a) : a[i] = b[i]

\* the positions <<g, j>> of the constant items of schema t that schema s
\* does not have
NewPositions(s, t) ==
    UNION {{<<g, j>> : j \in {k \in 1..Len(t.constants[g].list) :
                                  \/ g > Len(s.constants)
                                  \/ k > Len(s.constants[g].list)}} :
           g \in 1..Len(t.constants)}

ItemAt(t, pos) == t.constants[pos[1]].list[pos[2]]

\* the group names of the rules of spec sp that reached _add_constant in a
\* call that ended as c
NamesAdded(sp, c) ==
    {ConstantName(sp.rules[i]) :
        i \in {k \in 1..Len(sp.rules) :
                    c.err = "none" \/ (c.at > 0 /\ k < c.at)}}

\* the ref_ids of the "Other" items of schema s
OtherRefIds(s) ==
    {ItemAt(s, pos).ref_id :
        pos \in {q \in NewPositions(ClearedSchema, s) : ItemAt(s, q).is_other}}

\* C19: a spec application, whether it returns or raises, leaves merges as
\* they were, keeps every constant group the schema had at its position with
\* its type and its items as the head of its list, appends a group only for a
\* kind the schema had no group of, never two of a kind and never an empty
\* one, and appends exactly one item, not an "Other" item, for each group name
\* of a translated rule that did not resolve in the schema before; no rule of
\* the schema refers to an "Other" item
C19_Frame ==
    [][call'.op = "spec_setter" =>
        /\ _schema'.merges = _schema.merges
        /\ Len(_schema.constants) <= Len(_schema'.constants)
        /\ \A g \in 1..Len(_schema.constants) :
                /\ _schema'.constants[g].type = _schema.constants[g].type
                /\ IsPrefix(_schema.constants[g].list,
                            _schema'.constants[g].list)
        /\ \A g \in (Len(_schema.constants) + 1)..Len(_schema'.constants) :
                /\ _schema'.constants[g].type \in constant_types
                /\ ~HasGroupOfType(_schema, _schema'.constants[g].type)
                /\ Len(_schema'.constants[g].list) > 0
                /\ \A h \in (Len(_schema.constants) + 1)..Len(_schema'.constants) :
                        _schema'.constants[h].type = _schema'.constants[g].type
                            => h = g
        /\ \A p \in NewPositions(_schema, _schema') :
                /\ ~ItemAt(_schema', p).is_other
                /\ ItemAt(_schema', p).name \in NamesAdded(given', call')
                /\ \A q \in NewPositions(_schema, _schema') :
                        ItemAt(_schema', q).name = ItemAt(_schema', p).name
                            => q = p
        /\ \A n \in NamesAdded(given', call') :
                _get_ref_id_by_name(_schema, n) = None
                    <=> \E p \in NewPositions(_schema, _schema') :
                            ItemAt(_schema', p).name = n
        /\ OtherRefIds(_schema') = OtherRefIds(_schema)
        /\ \A i \in 1..Len(_schema'.rules) :
                StoredRef(_schema'.rules[i]) \notin OtherRefIds(_schema')]_vars

\* a spec application has returned that added a group to the "Other" item of
\* the 'Static Group' constant and a 'Dynamic Group Block' constant that the
\* schema did not have
C19_Witness ==
    /\ SetterSucceeded /\ ~call.again
    /\ Len(given.rules) = 2
    /\ Len(_schema.constants) = 2
    /\ _schema.constants[1].list[1] = OtherItem
    /\ Len(_schema.constants[1].list) = 2
    /\ _schema.constants[1].list[2].ref_id \in issued
    /\ _schema.constants[2].type = "Dynamic Group Block"
    /\ _schema.constants[2].list[1].ref_id \in issued
    /\ _id = None

-----------------------------------------------------------------------------
(* C20 -- deriving a spec leaves the perspective alone *)

\* C20: a read of the spec, whether it returns or raises, leaves the schema
\* of the perspective -- name, include_in_reports, merges, constants and every
\* rule, with its `to` or `ref_id` and its lists -- and the counter of the
\* allocator as they were
C20_DeriveKeepsSchema ==
    [][call'.op = "spec_getter" =>
        /\ _schema' = _schema
        /\ _new_ref_id' = _new_ref_id]_vars

\* a spec was derived from a schema with a categorize rule, whose ref_id the
\* derived rule gives as the name of the group in `to`, and whose field the
\* derived rule gives as a string
C20_Witness ==
    /\ call.op = "spec_getter" /\ call.err = "none"
    /\ \E i \in 1..Len(_schema.rules) :
            /\ _schema.rules[i].type = "categorize"
            /\ _schema.rules[i].to = Absent
            /\ _schema.rules[i].field.k = "list"
            /\ derived.rules[i].to = _get_name_by_ref_id(_schema,
                                                         _schema.rules[i].ref_id)
            /\ derived.rules[i].field.k = "str"

-----------------------------------------------------------------------------
(* C21 -- the spec object after it was applied *)

\* C21: after a spec application has returned, every rule of the caller's
\* spec object has the type it was passed with, names its group as it did in
\* `to` / `ref_id`, and has the field, tag_field and condition clauses it was
\* passed with
C21_SpecUnmodified ==
    [][(call'.op = "spec_setter" /\ call'.err = "none") =>
        /\ Len(spec'.rules) = Len(given'.rules)
        /\ \A i \in 1..Len(given'.rules) :
                /\ spec'.rules[i].type = given'.rules[i].type
                /\ spec'.rules[i].to = given'.rules[i].to
                /\ spec'.rules[i].ref_id = given'.rules[i].ref_id
                /\ spec'.rules[i].field = given'.rules[i].field
                /\ spec'.rules[i].tag_field = given'.rules[i].tag_field
                /\ spec'.rules[i].condition = given'.rules[i].condition]_vars

-----------------------------------------------------------------------------
(* C22 -- two callers on one perspective *)

\* C22: when a caller's update_cloudhealth sends its PUT and the transport
\* delivers it, the call returns without error and the store then holds the
\* payload of that PUT, which is the schema of the caller's instance without
\* its 'Dynamic Group' constants -- whatever the store held, and whatever
\* was written since the caller fetched
C22_LastWriterWins ==
    [][\A c \in Clients :
        (/\ clients[c].pc # "replaced"
         /\ clients'[c].pc = "replaced"
         /\ clients'[c].ack) =>
            /\ clients'[c].err = "none"
            /\ clients'[c].payload =
                    update_cloudhealth(clients[c].schema, clients[c].id,
                                       NoSchemaArg).payload
            /\ Fetch(remote', clients[c].id) = clients'[c].payload
            /\ clients'[c].schema = clients'[c].payload]_vars

\* both callers fetched the same schema; caller 1 changed it and its PUT went
\* through; caller 2's PUT went through after it, and the store holds caller
\* 2's payload, in which a rule that caller 1 wrote is missing
C22_Witness ==
    /\ \A c \in Clients : /\ clients[c].pc = "replaced"
                            /\ clients[c].ack
                            /\ clients[c].err = "none"
    /\ clients[1].base = clients[2].base
    /\ clients[1].payload # clients[1].base
    /\ Fetch(remote, PerspectiveId) = clients[2].payload
    /\ \E i \in 1..Len(clients[1].payload.rules) :
            \A j \in 1..Len(Fetch(remote, PerspectiveId).rules) :
                Fetch(remote, PerspectiveId).rules[j].field
                    # clients[1].payload.rules[i].field

====
